---- MODULE Spec2Model ----
(***************************************************************************)
(* A model of the OKEx v5 websocket session (src/src/okex_v5/websockets.rs) *)
(* WebSockets<WE>: the optional connection handle, the consumer channel,    *)
(* the commands, and event_loop, one step per await point.                  *)
(***************************************************************************)
EXTENDS Integers, Sequences, FiniteSets, TLC

\* ------------------------------------------------------------------ bounds
\* Frames the peer sends to one invocation of event_loop.
MaxFrames == 2
\* Frames the socket buffers before event_loop reads them.
MaxInbox == 1
\* Capacity of the tokio mpsc channel the caller hands to new().
ChanCap == 1
\* Successful handshakes over the whole behaviour.
MaxConn == 2

\* ------------------------------------------------------------- the session
VARIABLES
    socket,     \* self.socket: NoSocket, or the handle of a connection
    chan,       \* the mpsc channel behind self.sender: events queued
    rxClosed,   \* the Receiver of that channel was dropped or closed
    conf,       \* self.conf
    running,    \* the caller's AtomicBool
    pc,         \* where event_loop stands: idle (not called) or an await point
    message,    \* event_loop's local `message`: the frame of this iteration
    event,      \* event_loop's local `event`, the value handed to send
    inbox,      \* how many frames wait on the socket, not yet read
    eof,        \* the peer ended the stream of the current connection
    wire,       \* the frames the last write took: a call's socket.send, or the owner's own
    ret,        \* what the call that ran last returned
    decoded,    \* history: domain events of the frames this invocation read
    sends,      \* history: each sender.send(event) of this invocation, with its outcome
    stopReads,  \* history: frames this invocation read with the flag cleared
    nframes,    \* history: frames the peer sent to this invocation
    codec       \* the last conversion applied outside a session, and its result

vars == <<socket, chan, rxClosed, conf, running, pc, message, event, inbox,
          eof, wire, ret, decoded, sends, stopReads, nframes, codec>>

\* --------------------------------------------------------------- payloads
\* A text payload is empty, a JSON object (its keys, and the value under
\* "data" when it has one), or bytes that are no JSON at all.
EvtKeys == {"arg", "data"}
AckKeys == {"event", "code", "msg"}
EventData == {"trade-a", "trade-b"}

Obj(keys, d) == [form |-> "object", keys |-> keys, data |-> d]
EmptyBody == [form |-> "empty", keys |-> {}, data |-> ""]
Garbage == [form |-> "garbage", keys |-> {}, data |-> ""]
NoBody == [form |-> "none", keys |-> {}, data |-> ""]

Payloads ==
    {EmptyBody, Garbage, Obj(AckKeys, ""), Obj({"op"}, "")}
        \cup {Obj(EvtKeys, d) : d \in EventData}
        \cup {Obj(EvtKeys \cup AckKeys, "trade-b")}

\* msg.is_empty()
IsEmpty(p) == p.form = "empty"

\* from_slice::<WE>(&msg): serde ignores the keys the type does not name.
DecodeWE(p) ==
    IF p.form = "object" /\ EvtKeys \subseteq p.keys
    THEN [ok |-> TRUE, val |-> p.data]
    ELSE [ok |-> FALSE, val |-> ""]

\* from_slice::<WebsocketResponse>(&msg)
DecodeResponse(p) == p.form = "object" /\ AckKeys \subseteq p.keys

\* ----------------------------------------------------------------- frames
CloseReasons == {"None", "Normal"}
IgnoredKinds == {"Ping", "Pong", "Binary", "Continuation"}

Text(p) == [kind |-> "Text", body |-> p, reason |-> ""]
Close(e) == [kind |-> "Close", body |-> NoBody, reason |-> e]
Other(k) == [kind |-> k, body |-> NoBody, reason |-> ""]
\* An item of the stream that is Err(WsProtocolError), not a frame.
ProtocolErr == [kind |-> "Err", body |-> NoBody, reason |-> ""]
NoFrame == [kind |-> "none", body |-> NoBody, reason |-> ""]

Frames ==
    {Text(p) : p \in Payloads} \cup {Close(e) : e \in CloseReasons}
        \cup {Other(k) : k \in IgnoredKinds}

StreamItems == Frames \cup {ProtocolErr}

\* ---------------------------------------------------------------- results
Ret(op, tag, text, info, bytes) ==
    [op |-> op, tag |-> tag, text |-> text, info |-> info, bytes |-> bytes]
Ok(op) == Ret(op, "Ok", "", "", NoBody)
\* Error::Msg(format!(text, info or bytes))
Msg(op, text, info, bytes) == Ret(op, "Msg", text, info, bytes)
\* the `?` on a WsProtocolError
Protocol(op) == Ret(op, "Protocol", "", "", NoBody)
Panicked(op) == Ret(op, "Panic", "", "", NoBody)
\* The call has not returned yet.
Pending(op) == Ret(op, "Pending", "", "", NoBody)
\* The kind of the failure taxonomy a returned error belongs to: Error::Msg
\* is the free-text catch-all, a WsProtocolError a transport failure.
Kind(r) ==
    CASE r.tag = "Msg" -> "Catch-all"
      [] r.tag = "Protocol" -> "Transport"
      [] OTHER -> "none"
\* The call was dropped by its caller at the await `at` and returns nothing.
Dropped(op, at) == Ret(op, "Dropped", "", at, NoBody)
NoRet == Ret("new", "Ok", "", "", NoBody)

\* ----------------------------------------------------------------- handle
NoSocket == [id |-> 0, url |-> <<>>, wclosed |-> FALSE]
Endpoints == {"public"}
Causes == {"timeout", "refused"}
DefaultConf == [ws_endpoint |-> "wss://ws.okex.com:8443/ws/v5"]

\* format!("{}/{}", self.conf.ws_endpoint, endpoint)
Wss(c, endpoint) == <<c.ws_endpoint, "/", endpoint>>

\* No conversion applied yet.
NoCodec == [fn |-> "none", input |-> <<>>, output |-> <<>>]

Init ==
    /\ socket = NoSocket
    /\ chan = <<>>
    /\ rxClosed = FALSE
    /\ conf = DefaultConf
    /\ running = TRUE
    /\ pc = "idle"
    /\ message = NoFrame
    /\ event = ""
    /\ inbox = 0
    /\ eof = FALSE
    /\ wire = <<>>
    /\ ret = NoRet
    /\ decoded = <<>>
    /\ sends = <<>>
    /\ stopReads = 0
    /\ nframes = 0
    /\ codec = NoCodec

\* The session is used other than by event_loop, by a call or through its
\* pub field: what was recorded of the last invocation of event_loop is
\* over. The frames still waiting on the socket are the first the next
\* invocation will read.
NewCall ==
    /\ message' = NoFrame
    /\ event' = ""
    /\ decoded' = <<>>
    /\ sends' = <<>>
    /\ stopReads' = 0
    /\ nframes' = inbox'

\* ------------------------------------------------------- connection manager
\* connect(endpoint), the handshake succeeding: Ok(answer) => self.socket = Some(answer)
ConnectOk(endpoint) ==
    /\ pc = "idle"
    /\ socket.id < MaxConn
    /\ socket' = [id |-> socket.id + 1, url |-> Wss(conf, endpoint), wclosed |-> FALSE]
    /\ inbox' = 0
    /\ eof' = FALSE
    /\ wire' = <<>>
    /\ ret' = Ok("connect")
    /\ UNCHANGED <<chan, rxClosed, conf, codec, running, pc>>
    /\ NewCall

\* ConnectErr dropping the handle it had.
ConnectErrClears(endpoint, e) ==
    /\ pc = "idle"
    /\ socket' = NoSocket
    /\ wire' = <<>>
    /\ ret' = Msg("connect", "Error during handshake", e, NoBody)
    /\ UNCHANGED <<chan, rxClosed, conf, codec, running, pc, inbox, eof>>
    /\ NewCall

\* connect(endpoint), the handshake failing with e: Err(e) => Err(Error::Msg(..))
ConnectErr(endpoint, e) ==
    /\ pc = "idle"
    /\ wire' = <<>>
    /\ ret' = Msg("connect", "Error during handshake", e, NoBody)
    /\ UNCHANGED <<socket, chan, rxClosed, conf, codec, running, pc, inbox, eof>>
    /\ NewCall

\* The caller drops the future of connect while the handshake is pending
\* (client.ws(wss).connect().await, line 54): nothing is returned and
\* self.socket is not assigned.
ConnectDropped(endpoint) ==
    /\ pc = "idle"
    /\ wire' = <<>>
    /\ ret' = Dropped("connect", "handshake")
    /\ UNCHANGED <<socket, chan, rxClosed, conf, codec, running, pc, inbox, eof>>
    /\ NewCall

connect(endpoint) ==
    \/ ConnectOk(endpoint)
    \/ \E e \in Causes : ConnectErr(endpoint, e)
    \/ ConnectDropped(endpoint)

\* socket.send(Message::Text(text)).await? on a present handle, the one
\* send of the call. Ok says the frame was written. An Err, which the `?`
\* returns, says nothing of the frame: the sink may have failed before or
\* after it took it. The caller may drop the future while the send is
\* pending: with the sink not ready nothing was written, with the flush
\* pending the frame was, and nothing is returned. Which of these a sink
\* gives, a closed one included, is the transport's choice.
SocketSend(op, m) ==
    \/ wire' = <<m>> /\ ret' = Ok(op)
    \/ wire' \in {<<>>, <<m>>} /\ ret' = Protocol(op)
    \/ wire' \in {<<>>, <<m>>} /\ ret' = Dropped(op, "send")

NotAbleToSend(op) ==
    /\ ret' = Msg(op, "Not able to send requests", "", NoBody)
    /\ wire' = <<>>

Requests == {"subscribe"}
RawText(request) == [id |-> "", op |-> "raw", args |-> <<>>, text |-> request]

subscribe_request(request) ==
    /\ pc = "idle"
    /\ IF socket # NoSocket
       THEN SocketSend("subscribe_request", RawText(request))
       ELSE NotAbleToSend("subscribe_request")
    /\ UNCHANGED <<socket, chan, rxClosed, conf, codec, running, pc, inbox, eof>>
    /\ NewCall

\* ---------------------------------------------------------- command layer
Symbols == {"BTC-USDT"}
Qtys == {"1", "2"}
Prices == {"50000", "49000"}
OrderTypes == {"Limit", "PostOnly"}
\* The order types a caller hands to limit_buy and limit_sell.
LimitTypes == {"Limit"}
TradeModes == {"Isolated", "Cross", "Cash"}
OrderSides == {"Buy", "Sell"}

\* Option<T>: None, Some(x)
None == <<>>
Some(x) == <<x>>

\* The fields of WSOrder, in the order of the struct (lines 258-280).
Fields ==
    <<"symbol", "trade_mode", "currency", "client_order_id", "tag", "side",
      "position_side", "order_type", "qty", "price", "reduce_only",
      "target_currency">>

FieldType(f) ==
    CASE f \in {"symbol", "qty"} -> "string"
      [] f \in {"trade_mode", "side", "order_type"} -> "enum"
      [] f = "reduce_only" -> "opt_bool"
      [] OTHER -> "opt_string"

\* rename_all = "camelCase" on a field name.
CamelCase(f) ==
    CASE f = "reduce_only" -> "reduceOnly"
      [] f = "tag" -> "tag"
      [] f = "side" -> "side"

\* WireName with target currency under the key of currency.
WireNameShared(f) ==
    CASE f = "symbol" -> "inst_id"
      [] f = "trade_mode" -> "td_mode"
      [] f = "currency" -> "ccy"
      [] f = "client_order_id" -> "clOrdId"
      [] f = "position_side" -> "posSide"
      [] f = "order_type" -> "ord_type"
      [] f = "qty" -> "sz"
      [] f = "price" -> "px"
      [] f = "target_currency" -> "ccy"
      [] OTHER -> CamelCase(f)

\* The key serde writes and reads for a field: its #[serde(rename = ..)]
\* when it has one, else the rename_all of the struct.
WireName(f) ==
    CASE f = "symbol" -> "inst_id"
      [] f = "trade_mode" -> "td_mode"
      [] f = "currency" -> "ccy"
      [] f = "client_order_id" -> "clOrdId"
      [] f = "position_side" -> "posSide"
      [] f = "order_type" -> "ord_type"
      [] f = "qty" -> "sz"
      [] f = "price" -> "px"
      [] f = "target_currency" -> "tgtCcy"
      [] OTHER -> CamelCase(f)

\* rename_all = "snake_case" on the variants of TradeMode, OrderSide, OrderType.
SnakeCase(v) ==
    CASE v = "Isolated" -> "isolated"
      [] v = "Cross" -> "cross"
      [] v = "Cash" -> "cash"
      [] v = "Buy" -> "buy"
      [] v = "Sell" -> "sell"
      [] v = "Limit" -> "limit"
      [] v = "PostOnly" -> "post_only"

Variants(f) ==
    CASE f = "trade_mode" -> TradeModes
      [] f = "side" -> OrderSides
      [] f = "order_type" -> OrderTypes

\* JSON values: a string, true or false, null.
JStr(x) == <<"string", x>>
JBool(b) == <<"bool", IF b THEN "true" ELSE "false">>
JNull == <<"null", "">>

\* Serialize for one field: an Option without skip_serializing_if writes
\* null for None.
ToJson(t, v) ==
    CASE t = "string" -> JStr(v)
      [] t = "enum" -> JStr(SnakeCase(v))
      [] t = "opt_string" -> (IF v = None THEN JNull ELSE JStr(v[1]))
      [] t = "opt_bool" -> (IF v = None THEN JNull ELSE JBool(v[1]))

\* The key and the type of each field, in the order of the struct.
WireNames == [i \in 1..Len(Fields) |-> WireName(Fields[i])]
FieldTypes == [i \in 1..Len(Fields) |-> FieldType(Fields[i])]

\* serde_json::to_string of a WSOrder: the object's members, key and value,
\* in the order of the fields.
SerializeOrder(o) ==
    [i \in 1..Len(Fields) |-> <<WireNames[i], ToJson(FieldTypes[i], o[Fields[i]])>>]

\* The members of a JSON object under a key, by position.
Members(obj, key) == {i \in 1..Len(obj) : obj[i][1] = key}

\* Deserialize for one field from the members under its key: none, one (its
\* value), or several (serde's duplicate field error).
FromJson(f, obj) ==
    LET t == FieldType(f)
        found == Members(obj, WireName(f))
        j == obj[CHOOSE i \in found : TRUE][2]
        bad == [ok |-> FALSE, val |-> None]
    IN  IF Cardinality(found) > 1 THEN bad
        ELSE IF found = {}
        THEN (IF t \in {"opt_string", "opt_bool"}
              THEN [ok |-> TRUE, val |-> None] ELSE bad)
        ELSE CASE t = "string" ->
                    IF j[1] = "string" THEN [ok |-> TRUE, val |-> j[2]] ELSE bad
               [] t = "enum" ->
                    IF j[1] = "string" /\ \E v \in Variants(f) : SnakeCase(v) = j[2]
                    THEN [ok |-> TRUE,
                          val |-> CHOOSE v \in Variants(f) : SnakeCase(v) = j[2]]
                    ELSE bad
               [] t = "opt_string" ->
                    IF j[1] = "null" THEN [ok |-> TRUE, val |-> None]
                    ELSE IF j[1] = "string" THEN [ok |-> TRUE, val |-> Some(j[2])]
                    ELSE bad
               [] t = "opt_bool" ->
                    IF j[1] = "null" THEN [ok |-> TRUE, val |-> None]
                    ELSE IF j[1] = "bool" THEN [ok |-> TRUE, val |-> Some(j[2] = "true")]
                    ELSE bad

\* serde_json::from_str::<WSOrder>
DeserializeOrder(obj) ==
    LET field(f) == FromJson(f, obj)
        names == {Fields[i] : i \in 1..Len(Fields)}
    IN  [ok |-> \A f \in names : field(f).ok,
         val |-> [f \in names |-> field(f).val]]

\* LimitOrder with quantity and price in each other's place.
LimitOrderSwapped(symbol, qty, price, order_type, side) ==
    [symbol |-> symbol, trade_mode |-> "Cross", currency |-> None,
     client_order_id |-> None, tag |-> None, side |-> side,
     position_side |-> None, order_type |-> order_type, qty |-> price,
     price |-> Some(qty), reduce_only |-> None, target_currency |-> None]

\* The WSOrder that limit_buy and limit_sell build (lines 158-171, 183-196).
LimitOrder(symbol, qty, price, order_type, side) ==
    [symbol |-> symbol, trade_mode |-> "Cross", currency |-> None,
     client_order_id |-> None, tag |-> None, side |-> side,
     position_side |-> None, order_type |-> order_type, qty |-> qty,
     price |-> Some(price), reduce_only |-> None, target_currency |-> None]

\* serde_json::to_string of a WSOrderRequest
SerializeRequest(req) ==
    [id |-> req.id, op |-> req.op,
     args |-> [i \in 1..Len(req.args) |-> SerializeOrder(req.args[i])], text |-> ""]

\* serde_json::from_str::<WSOrderRequest>
DeserializeRequest(m) ==
    LET a == [i \in 1..Len(m.args) |-> DeserializeOrder(m.args[i])]
    IN  [ok |-> \A i \in 1..Len(a) : a[i].ok,
         val |-> [id |-> m.id, op |-> m.op, args |-> [i \in 1..Len(a) |-> a[i].val]]]

\* The text handed to Message::Text: WSOrderRequest { id:
\* Uuid::new_v4().to_string(), op, args }, serialized.
Envelope(op, args) == SerializeRequest([id |-> "uuid", op |-> op, args |-> args])

\* place_order writing without looking at the handle.
place_order_unchecked(caller, order) ==
    SocketSend(caller, Envelope("order", <<order>>))

\* place_order(order)
place_order(caller, order) ==
    IF socket # NoSocket
    THEN SocketSend(caller, Envelope("order", <<order>>))
    ELSE NotAbleToSend(caller)

limit_buy(symbol, qty, price, order_type) ==
    /\ pc = "idle"
    /\ place_order("limit_buy", LimitOrder(symbol, qty, price, order_type, "Buy"))
    /\ UNCHANGED <<socket, chan, rxClosed, conf, codec, running, pc, inbox, eof>>
    /\ NewCall

limit_sell(symbol, qty, price, order_type) ==
    /\ pc = "idle"
    /\ place_order("limit_sell", LimitOrder(symbol, qty, price, order_type, "Sell"))
    /\ UNCHANGED <<socket, chan, rxClosed, conf, codec, running, pc, inbox, eof>>
    /\ NewCall

\* The WSOrders a caller builds: every combination of present and absent
\* optional fields, and every variant of the enums.
OptString(x) == {None, Some(x)}
Orders ==
    [symbol : Symbols, trade_mode : {"Cross"}, currency : OptString("USDT"),
     client_order_id : OptString("c1"), tag : OptString("t1"), side : {"Buy"},
     position_side : OptString("long"), order_type : {"Limit"}, qty : {"1"},
     price : OptString("50000"), reduce_only : {None, Some(TRUE)},
     target_currency : OptString("base_ccy")]
    \cup
    [symbol : Symbols, trade_mode : TradeModes, currency : {None},
     client_order_id : {None}, tag : {None}, side : OrderSides,
     position_side : {None}, order_type : OrderTypes, qty : Qtys,
     price : {None}, reduce_only : {Some(FALSE)}, target_currency : {None}]

\* The order lists of a WSOrderRequest (args: Vec<WSOrder>) other than the
\* one order of place_order.
Batches ==
    {<<>>,
     <<LimitOrder("BTC-USDT", "1", "50000", "Limit", "Buy"),
       LimitOrder("BTC-USDT", "2", "50000", "Limit", "Sell")>>,
     <<[symbol |-> "BTC-USDT", trade_mode |-> "Isolated", currency |-> Some("USDT"),
        client_order_id |-> Some("c1"), tag |-> Some("t1"), side |-> "Sell",
        position_side |-> Some("long"), order_type |-> "PostOnly", qty |-> "2",
        price |-> None, reduce_only |-> Some(TRUE),
        target_currency |-> Some("base_ccy")]>>}

\* socket.close().await?: the sink is flushed and its write half shut down;
\* self.socket is left as it is.
disconnect ==
    /\ pc = "idle"
    /\ IF socket # NoSocket
       THEN \/ /\ socket' = [socket EXCEPT !.wclosed = TRUE]
               /\ ret' = Ok("disconnect")
            \/ /\ socket' \in {socket, [socket EXCEPT !.wclosed = TRUE]}
               /\ ret' = Protocol("disconnect")
            \* the caller drops the future while the close is pending
            \/ /\ socket' \in {socket, [socket EXCEPT !.wclosed = TRUE]}
               /\ ret' = Dropped("disconnect", "close")
       ELSE /\ socket' = socket
            /\ ret' = Msg("disconnect", "Not able to close the connection", "", NoBody)
    /\ wire' = <<>>
    /\ UNCHANGED <<chan, rxClosed, conf, codec, running, pc, inbox, eof>>
    /\ NewCall

\* ------------------------------------------------------------- event loop
\* Classify without the is_empty() test: an empty body goes to the decoders.
ClassifyNoEmptyTest(item) ==
    CASE item.kind = "Err" -> "protocol"
      [] item.kind = "Text" ->
            IF DecodeWE(item.body).ok THEN "forward"
            ELSE IF DecodeResponse(item.body) THEN "ack"
            ELSE "parse"
      [] item.kind \in IgnoredKinds -> "ignore"
      [] item.kind = "Close" -> "close"

\* Classify without the second decode: what is no event is a parse failure.
ClassifyNoAckFallback(item) ==
    CASE item.kind = "Err" -> "protocol"
      [] item.kind = "Text" ->
            IF IsEmpty(item.body) THEN "end"
            ELSE IF DecodeWE(item.body).ok THEN "forward"
            ELSE "parse"
      [] item.kind \in IgnoredKinds -> "ignore"
      [] item.kind = "Close" -> "close"

\* Classify trying the acknowledgement type before the event type.
ClassifyAckFirst(item) ==
    CASE item.kind = "Err" -> "protocol"
      [] item.kind = "Text" ->
            IF IsEmpty(item.body) THEN "end"
            ELSE IF DecodeResponse(item.body) THEN "ack"
            ELSE IF DecodeWE(item.body).ok THEN "forward"
            ELSE "parse"
      [] item.kind \in IgnoredKinds -> "ignore"
      [] item.kind = "Close" -> "close"

\* What event_loop does with one item of the stream (lines 89-111).
Classify(item) ==
    CASE item.kind = "Err" -> "protocol"
      [] item.kind = "Text" ->
            IF IsEmpty(item.body) THEN "end"
            ELSE IF DecodeWE(item.body).ok THEN "forward"
            ELSE IF DecodeResponse(item.body) THEN "ack"
            ELSE "parse"
      [] item.kind \in IgnoredKinds -> "ignore"
      [] item.kind = "Close" -> "close"

\* LoopResult with the close reason left out of the message.
LoopResultNoReason(outcome, item) ==
    CASE outcome = "protocol" -> Protocol("event_loop")
      [] outcome = "end" -> Ok("event_loop")
      [] outcome = "parse" -> Msg("event_loop", "Websocket Parse failed", "", item.body)
      [] outcome = "close" -> Msg("event_loop", "Disconnected", "", NoBody)

\* LoopResult with the payload left out of the parse error.
LoopResultNoBytes(outcome, item) ==
    CASE outcome = "protocol" -> Protocol("event_loop")
      [] outcome = "end" -> Ok("event_loop")
      [] outcome = "parse" -> Msg("event_loop", "Websocket Parse failed", "", NoBody)
      [] outcome = "close" -> Msg("event_loop", "Disconnected", item.reason, NoBody)

\* The value event_loop returns on an outcome that ends it.
LoopResult(outcome, item) ==
    CASE outcome = "protocol" -> Protocol("event_loop")
      [] outcome = "end" -> Ok("event_loop")
      [] outcome = "parse" -> Msg("event_loop", "Websocket Parse failed", "", item.body)
      [] outcome = "close" -> Msg("event_loop", "Disconnected", item.reason, NoBody)

\* AfterFrame with the decoded event dropped instead of sent.
AfterFrameDropsEvent(outcome) ==
    CASE outcome \in {"forward", "ack", "ignore"} -> "yield"
      [] OTHER -> "idle"

\* Where event_loop goes after the match on a frame: to the send of the
\* decoded event, to the yield that ends the iteration, or out (idle).
AfterFrame(outcome) ==
    CASE outcome = "forward" -> "send"
      [] outcome \in {"ack", "ignore"} -> "yield"
      [] OTHER -> "idle"

\* The caller calls event_loop(&running).
StartLoop ==
    /\ pc = "idle"
    /\ pc' = "check"
    /\ ret' = Pending("event_loop")
    /\ wire' = <<>>
    /\ message' = NoFrame
    /\ event' = ""
    /\ decoded' = <<>>
    /\ sends' = <<>>
    /\ stopReads' = 0
    /\ nframes' = inbox
    /\ UNCHANGED <<socket, chan, rxClosed, conf, codec, running, inbox, eof>>

\* LoopCheck that does not load the flag.
LoopCheckNoFlag ==
    /\ pc \in {"check", "spin"}
    /\ pc' = (IF socket # NoSocket THEN "read" ELSE "spin")
    /\ UNCHANGED <<socket, chan, rxClosed, conf, codec, running, message, event, inbox,
                   eof, wire, ret, decoded, sends, stopReads, nframes>>

\* while running.load(Ordering::Relaxed) { if let Some(..) = self.socket {
\* The loop is at its condition: "check" when it came there from the call or
\* from yield_now, "spin" when it came there from the end of a body that
\* skipped the if let, with no await since the condition before.
LoopCheck ==
    /\ pc \in {"check", "spin"}
    /\ IF ~running
       THEN pc' = "idle" /\ ret' = Ok("event_loop")
       ELSE /\ pc' = (IF socket # NoSocket THEN "read" ELSE "spin")
            /\ ret' = ret
    /\ UNCHANGED <<socket, chan, rxClosed, conf, codec, running, message, event, inbox,
                   eof, wire, decoded, sends, stopReads, nframes>>

\* socket.next().await.unwrap() on a stream that has ended: next() is None
\* and unwrap() panics. The panic unwinds out of event_loop; where it is
\* caught (catch_unwind, or the end of the task that ran the call) the
\* session is as the call left it and its owner goes on using it.
LoopReadNone ==
    /\ pc = "read"
    /\ inbox = 0
    /\ eof
    /\ pc' = "idle"
    /\ ret' = Panicked("event_loop")
    /\ UNCHANGED <<socket, chan, rxClosed, conf, codec, running, message, event, inbox,
                   eof, wire, decoded, sends, stopReads, nframes>>

\* socket.next().await.unwrap()? yields item, and the match on the frame runs
\* up to the next await or return. The item's content is the peer's choice;
\* nothing looks at it before this read.
LoopRead(item) ==
    /\ pc = "read"
    /\ inbox > 0
    /\ inbox' = inbox - 1
    /\ stopReads' = (IF running THEN stopReads ELSE stopReads + 1)
    /\ LET outcome == Classify(item)
       IN  /\ message' = (IF outcome = "protocol" THEN NoFrame ELSE item)
           /\ pc' = AfterFrame(outcome)
           /\ ret' = (IF AfterFrame(outcome) = "idle" THEN LoopResult(outcome, item) ELSE ret)
           /\ IF outcome = "forward"
              THEN /\ event' = DecodeWE(item.body).val
                   /\ decoded' = Append(decoded, DecodeWE(item.body).val)
              ELSE UNCHANGED <<event, decoded>>
    /\ UNCHANGED <<socket, chan, rxClosed, conf, codec, running, eof, wire, sends, nframes>>

\* LoopSend returning the send error to the caller of event_loop.
LoopSendFatal ==
    /\ pc = "send"
    /\ rxClosed \/ Len(chan) < ChanCap
    /\ IF rxClosed
       THEN /\ sends' = Append(sends, [val |-> event, ok |-> FALSE])
            /\ chan' = chan
            /\ pc' = "idle"
            /\ ret' = Ret("event_loop", "SendError", "", "", NoBody)
       ELSE /\ sends' = Append(sends, [val |-> event, ok |-> TRUE])
            /\ chan' = Append(chan, event)
            /\ pc' = "yield"
            /\ ret' = ret
    /\ UNCHANGED <<socket, rxClosed, conf, codec, running, message, event, inbox, eof,
                   wire, decoded, stopReads, nframes>>

\* LoopSend with try_send: a full channel refuses the event at once.
LoopSendDropsWhenFull ==
    /\ pc = "send"
    /\ IF rxClosed \/ Len(chan) >= ChanCap
       THEN /\ sends' = Append(sends, [val |-> event, ok |-> FALSE])
            /\ chan' = chan
       ELSE /\ sends' = Append(sends, [val |-> event, ok |-> TRUE])
            /\ chan' = Append(chan, event)
    /\ pc' = "yield"
    /\ UNCHANGED <<socket, rxClosed, conf, codec, running, message, event, inbox, eof,
                   wire, ret, decoded, stopReads, nframes>>

\* self.sender.send(event).await: waits for a slot while the channel is full,
\* fails once the receiver is closed; the failure is printed and dropped.
LoopSend ==
    /\ pc = "send"
    /\ rxClosed \/ Len(chan) < ChanCap
    /\ IF rxClosed
       THEN /\ sends' = Append(sends, [val |-> event, ok |-> FALSE])
            /\ chan' = chan
       ELSE /\ sends' = Append(sends, [val |-> event, ok |-> TRUE])
            /\ chan' = Append(chan, event)
    /\ pc' = "yield"
    /\ UNCHANGED <<socket, rxClosed, conf, codec, running, message, event, inbox, eof,
                   wire, ret, decoded, stopReads, nframes>>

\* actix_rt::task::yield_now().await
LoopYield ==
    /\ pc = "yield"
    /\ pc' = "check"
    /\ message' = NoFrame
    /\ event' = ""
    /\ UNCHANGED <<socket, chan, rxClosed, conf, codec, running, inbox,
                   eof, wire, ret, decoded, sends, stopReads, nframes>>

event_loop ==
    \/ LoopCheck
    \/ LoopReadNone
    \/ \E item \in StreamItems : LoopRead(item)
    \/ LoopSend
    \/ LoopYield

\* ------------------------------------------------------------ environment
\* The peer puts an item on the stream of the current connection.
PeerSend ==
    /\ socket # NoSocket
    /\ ~eof
    /\ inbox < MaxInbox
    /\ nframes < MaxFrames
    /\ inbox' = inbox + 1
    /\ nframes' = nframes + 1
    /\ UNCHANGED <<socket, chan, rxClosed, conf, codec, running, pc, message, event,
                   eof, wire, ret, decoded, sends, stopReads>>

\* The peer ends the stream.
PeerEnd ==
    /\ socket # NoSocket
    /\ ~eof
    /\ eof' = TRUE
    /\ UNCHANGED <<socket, chan, rxClosed, conf, codec, running, pc, message, event,
                   inbox, wire, ret, decoded, sends, stopReads, nframes>>

\* The consumer takes an event from the channel.
Recv ==
    /\ chan # <<>>
    /\ chan' = Tail(chan)
    /\ UNCHANGED <<socket, rxClosed, conf, codec, running, pc, message, event, inbox,
                   eof, wire, ret, decoded, sends, stopReads, nframes>>

\* The consumer closes its end of the channel.
RxClose ==
    /\ ~rxClosed
    /\ rxClosed' = TRUE
    /\ UNCHANGED <<socket, chan, conf, codec, running, pc, message, event, inbox, eof,
                   wire, ret, decoded, sends, stopReads, nframes>>

\* The owner of the flag clears it, at any time.
ClearRunning ==
    /\ running
    /\ running' = FALSE
    /\ UNCHANGED <<socket, chan, rxClosed, conf, codec, pc, message, event, inbox, eof,
                   wire, ret, decoded, sends, stopReads, nframes>>

\* The owner of the flag sets it, at any time: the frames read with the flag
\* cleared are counted from the last time it was cleared.
SetRunning ==
    /\ ~running
    /\ running' = TRUE
    /\ stopReads' = 0
    /\ UNCHANGED <<socket, chan, rxClosed, conf, codec, pc, message, event, inbox, eof,
                   wire, ret, decoded, sends, nframes>>

\* The caller drops the future of event_loop (select!, a timeout) while it is
\* pending at one of its awaits (lines 89, 97, 112): the call ends without
\* returning, &mut self is free again, and what the future held, the event
\* it was sending, is gone.
DropLoop ==
    /\ pc \in {"read", "send", "yield"}
    /\ pc' = "idle"
    /\ ret' = Dropped("event_loop", pc)
    /\ UNCHANGED <<socket, chan, rxClosed, conf, codec, running, message, event, inbox,
                   eof, wire, decoded, sends, stopReads, nframes>>

\* The owner of the session assigns None to the pub field socket (line 22),
\* or takes the handle out of it with take(): the session has no handle.
AssignNone ==
    /\ pc = "idle"
    /\ socket # NoSocket
    /\ socket' = NoSocket
    /\ inbox' = 0
    /\ eof' = FALSE
    /\ UNCHANGED <<chan, rxClosed, conf, codec, running, pc, wire, ret>>
    /\ NewCall

\* The handles the owner makes with a client of their own.
OwnUrls == {<<"wss://elsewhere/x">>}

\* The owner of the session assigns Some(handle) to the pub field socket
\* (line 22): a handle of their own making, whose url is not built from
\* conf and whose sink may have been closed already.
AssignSome(url, wclosed) ==
    /\ pc = "idle"
    /\ socket.id < MaxConn
    /\ socket' = [id |-> socket.id + 1, url |-> url, wclosed |-> wclosed]
    /\ inbox' = 0
    /\ eof' = FALSE
    /\ UNCHANGED <<chan, rxClosed, conf, codec, running, pc, wire, ret>>
    /\ NewCall

\* The owner reads a frame from the stream through the pub field
\* (socket.as_mut(), next()): the frame leaves the socket and no call of
\* event_loop sees it.
OwnerRead ==
    /\ pc = "idle"
    /\ socket # NoSocket
    /\ inbox > 0
    /\ inbox' = inbox - 1
    /\ UNCHANGED <<socket, chan, rxClosed, conf, codec, running, pc, eof, wire, ret>>
    /\ NewCall

\* The owner closes the sink through the pub field (socket.as_mut(),
\* close()), without calling disconnect.
OwnerClose ==
    /\ pc = "idle"
    /\ socket # NoSocket
    /\ ~socket.wclosed
    /\ socket' = [socket EXCEPT !.wclosed = TRUE]
    /\ UNCHANGED <<chan, rxClosed, conf, codec, running, pc, inbox, eof, wire, ret>>
    /\ NewCall

\* The owner writes a frame to the sink through the pub field
\* (socket.as_mut(), send()): a write no call of the session made.
OwnerWrite(request) ==
    /\ pc = "idle"
    /\ socket # NoSocket
    /\ wire' = <<RawText(request)>>
    /\ UNCHANGED <<socket, chan, rxClosed, conf, codec, running, pc, inbox, eof, ret>>
    /\ NewCall

Next ==
    \/ \E endpoint \in Endpoints : connect(endpoint)
    \/ \E request \in Requests : subscribe_request(request)
    \/ \E symbol \in Symbols, qty \in Qtys, price \in Prices, order_type \in LimitTypes :
            \/ limit_buy(symbol, qty, price, order_type)
            \/ limit_sell(symbol, qty, price, order_type)
    \/ disconnect
    \/ StartLoop
    \/ event_loop
    \/ PeerSend
    \/ PeerEnd
    \/ Recv
    \/ RxClose
    \/ ClearRunning
    \/ SetRunning
    \/ DropLoop
    \/ AssignNone
    \/ \E url \in OwnUrls, wclosed \in BOOLEAN : AssignSome(url, wclosed)
    \/ OwnerRead
    \/ OwnerClose
    \/ \E request \in Requests : OwnerWrite(request)

Spec == Init /\ [][Next]_vars

\* ----------------------------------------- conversions outside a session
session == <<socket, chan, rxClosed, conf, running, pc, message, event, inbox,
             eof, wire, ret, decoded, sends, stopReads, nframes>>

\* The WSOrderRequests a caller can build from Orders.
OrderRequests ==
    [id : {"uuid"}, op : {"order"}, args : {<<o>> : o \in Orders}]
    \cup [id : {"uuid"}, op : {"batch-orders"}, args : Batches]

\* A WSOrderRequest goes to the wire and is parsed back.
RoundTrip(req) ==
    /\ codec' = [fn |-> "WSOrderRequest", input |-> req,
                 output |-> DeserializeRequest(SerializeRequest(req))]
    /\ UNCHANGED session

\* The range of i16, the type of HuobiContentError.code.
I16Min == -32768
I16Max == 32767

\* serde's visit of a JSON integer for an i16 field: the value when it is in
\* range, else the error "invalid value: integer, expected i16".
DeserializeI16(n) ==
    IF I16Min <= n /\ n <= I16Max THEN [ok |-> TRUE, val |-> n]
    ELSE [ok |-> FALSE, val |-> 0]

\* The error bodies a venue sends: a numeric code, a message, and members
\* the struct does not name.
Codes == {I16Min - 1, I16Min, -1, 0, 1003, I16Max, I16Max + 1}
ErrMsgs == {"invalid symbol", ""}
ExtraKeys == {"ts", "data"}
ContentBodies ==
    [code : Codes, msg : ErrMsgs,
     extra : {[k \in K |-> "v"] : K \in SUBSET ExtraKeys}]

\* serde_json::from_str::<HuobiContentError>: code as i16, msg, and every
\* other member into extra (#[serde(flatten)]).
DeserializeContentError(j) ==
    LET c == DeserializeI16(j.code)
    IN  IF c.ok
        THEN [ok |-> TRUE, val |-> [code |-> c.val, msg |-> j.msg, extra |-> j.extra]]
        ELSE [ok |-> FALSE, val |-> [code |-> 0, msg |-> "", extra |-> <<>>]]

\* An error body of the venue is decoded.
DecodeContentError(j) ==
    /\ codec' = [fn |-> "HuobiContentError", input |-> j,
                 output |-> DeserializeContentError(j)]
    /\ UNCHANGED session

\* The failure sources of the library, and the variant of Error that wraps
\* each.
Sources ==
    {"reqwest::Error", "InvalidHeaderValue", "io::Error", "ParseFloatError",
     "url::ParseError", "serde_json::Error", "serde_qs::Error",
     "tungstenite::Error", "mpsc::SendError", "SystemTimeError", "Utf8Error",
     "HuobiContentError"}

Variant(src) ==
    CASE src = "reqwest::Error" -> "ReqError"
      [] src = "InvalidHeaderValue" -> "InvalidHeaderError"
      [] src = "io::Error" -> "IoError"
      [] src = "ParseFloatError" -> "ParseFloatError"
      [] src = "url::ParseError" -> "UrlParserError"
      [] src = "serde_json::Error" -> "Json"
      [] src = "serde_qs::Error" -> "Qs"
      [] src = "tungstenite::Error" -> "Tungstenite"
      [] src = "mpsc::SendError" -> "SendError"
      [] src = "SystemTimeError" -> "TimestampError"
      [] src = "Utf8Error" -> "UTF8Err"
      [] src = "HuobiContentError" -> "HuobiError"

\* The sources whose variant carries #[from]: thiserror writes impl From for
\* these and for no other.
HasFrom(src) == src # "mpsc::SendError"

\* Error::from(e), which is what `?` calls: the variant, or no conversion.
ErrorFrom(src) ==
    IF HasFrom(src) THEN [ok |-> TRUE, val |-> Variant(src)]
    ELSE [ok |-> FALSE, val |-> ""]

\* A failure of a source is converted into Error.
ConvertError(src) ==
    /\ codec' = [fn |-> "Error::from", input |-> src, output |-> ErrorFrom(src)]
    /\ UNCHANGED session

NextCodec ==
    \/ \E req \in OrderRequests : RoundTrip(req)
    \/ \E j \in ContentBodies : DecodeContentError(j)
    \/ \E src \in Sources : ConvertError(src)

SpecCodec == Init /\ [][NextCodec]_vars

\* ------------------------------------------------------------------ claims
SendVals == [i \in 1..Len(sends) |-> sends[i].val]
Accepted == SelectSeq(sends, LAMBDA x : x.ok)
Delivered == [i \in 1..Len(Accepted) |-> Accepted[i].val]
\* The decoded events whose send has completed.
DecodedDone ==
    IF pc = "send" THEN SubSeq(decoded, 1, Len(decoded) - 1) ELSE decoded

\* The event of the frame read last has not been handed to the channel: the
\* invocation stands at its send, or its caller dropped it there (and the
\* record of that invocation still stands).
Unsent == pc = "send" \/ (ret = Dropped("event_loop", "send") /\ decoded # <<>>)
\* The decoded events that were handed to the channel, dropped ones left out.
DecodedSent ==
    IF Unsent THEN SubSeq(decoded, 1, Len(decoded) - 1) ELSE decoded

\* C1: every frame that decodes as the domain-event type is handed to the
\* consumer channel exactly once, in the order the frames arrived, except the
\* frame read last by an invocation that its caller dropped at the send: the
\* sends are the decoded events in arrival order, the one not sent is the
\* last frame's, every send is accepted while the receiver is open, and an
\* accepted send puts that frame's event, once, at the tail of the channel.
C1_OneSendPerEventUnlessDropped ==
    /\ [](/\ SendVals = DecodedSent
          /\ pc = "send" => event = decoded[Len(decoded)]
          /\ ~rxClosed => Delivered = SendVals)
    /\ [][Len(sends') = Len(sends) + 1 =>
            IF sends'[Len(sends')].ok
            THEN chan' = Append(chan, decoded[Len(sends')])
            ELSE rxClosed /\ chan' = chan]_vars

\* C1 as claimed: every frame that decodes as the domain-event type is
\* handed to the consumer channel exactly once, in the order the frames
\* arrived; only the frame of an invocation standing at its send is not yet
\* sent.
C1_OneSendPerEventInOrder ==
    /\ [](/\ SendVals = DecodedDone
          /\ pc = "send" => event = decoded[Len(decoded)]
          /\ ~rxClosed => Delivered = SendVals)
    /\ [][Len(sends') = Len(sends) + 1 =>
            IF sends'[Len(sends')].ok
            THEN chan' = Append(chan, decoded[Len(sends')])
            ELSE rxClosed /\ chan' = chan]_vars

C1_Witness ==
    /\ Len(decoded) = 2
    /\ decoded[1] # decoded[2]
    /\ Delivered = decoded
    /\ chan = <<decoded[2]>>

\* C2: a step of event_loop that reads an empty text frame returns Ok, sends
\* nothing to the channel and ends the invocation (no further read).
C2_EmptyTextEndsLoopOk ==
    [][LoopRead(Text(EmptyBody)) =>
        /\ pc' = "idle"
        /\ ret' = Ok("event_loop")
        /\ sends' = sends /\ chan' = chan /\ decoded' = decoded]_vars

C2_Witness ==
    /\ pc = "idle"
    /\ message = Text(EmptyBody)
    /\ ret = Ok("event_loop")
    /\ running

C4_UnparseableEndsLoopWithBytes ==
    [][\A p \in Payloads :
        (~IsEmpty(p) /\ ~DecodeWE(p).ok /\ ~DecodeResponse(p) /\ LoopRead(Text(p))) =>
            /\ pc' = "idle"
            /\ ret' = Msg("event_loop", "Websocket Parse failed", "", p)
            /\ sends' = sends /\ chan' = chan /\ decoded' = decoded]_vars

C4_Witness ==
    /\ pc = "idle"
    /\ message = Text(Obj({"op"}, ""))
    /\ ret.text = "Websocket Parse failed" /\ ret.bytes = Obj({"op"}, "")

\* A step that is one of the commands.
CommandStep ==
    \/ \E request \in Requests : subscribe_request(request)
    \/ \E symbol \in Symbols, qty \in Qtys, price \in Prices, order_type \in LimitTypes :
            \/ limit_buy(symbol, qty, price, order_type)
            \/ limit_sell(symbol, qty, price, order_type)

\* C5: with no handle, every command returns the error "Not able to send
\* requests", writes nothing, and leaves handle, channel and configuration
\* as they were.
C5_CommandsFailWithoutHandle ==
    [][(socket = NoSocket /\ CommandStep) =>
        /\ ret'.tag = "Msg" /\ ret'.text = "Not able to send requests"
        /\ wire' = <<>>
        /\ socket' = NoSocket
        /\ chan' = chan /\ rxClosed' = rxClosed /\ conf' = conf]_vars

C5_Witness ==
    /\ socket = NoSocket
    /\ ret.op = "limit_buy"
    /\ ret.text = "Not able to send requests"
    /\ wire = <<>>

\* C6: after a disconnect() that returned Ok the handle is absent.
C6_DisconnectClearsHandle ==
    (ret.op = "disconnect" /\ ret.tag = "Ok") => socket = NoSocket

\* C7 as claimed: after a connect that failed the handle is absent.
C7_FailedConnectLeavesNoHandle ==
    (ret.op = "connect" /\ ret.tag = "Msg") => socket = NoSocket

\* C7: a connect that does not return Ok leaves the handle as it was,
\* absent or present, and, unless its caller dropped it, returns "Error
\* during handshake" with the cause; the one call that stores a handle is a
\* connect that returns Ok, which stores a fresh one: any other step that
\* stores a handle is the owner assigning the pub field.
C7_FailedConnectKeepsHandle ==
    [][/\ (ret'.op = "connect" /\ ret'.tag # "Ok" /\ ret' # ret) =>
            /\ socket' = socket
            /\ ret'.tag # "Dropped" =>
                    /\ ret'.tag = "Msg" /\ ret'.text = "Error during handshake"
                    /\ ret'.info \in Causes
       /\ (socket'.id # socket.id /\ socket' # NoSocket) =>
            \/ /\ ret' = Ok("connect")
               /\ socket'.id = socket.id + 1
               /\ socket'.url \in {Wss(conf, endpoint) : endpoint \in Endpoints}
               /\ ~socket'.wclosed
            \/ \E url \in OwnUrls, wclosed \in BOOLEAN : AssignSome(url, wclosed)]_vars

C7_Witness ==
    /\ socket.id = 2
    /\ ret.op = "connect" /\ ret.tag = "Msg" /\ ret.info = "refused"

\* C8 as claimed: with the flag cleared, event_loop standing at the frame
\* read can go on without anything arriving from the socket.
C8_ReturnNeedsNoFrame ==
    (pc = "read" /\ ~running) => ENABLED event_loop

\* C8: while the flag stays cleared, event_loop reads at most one further
\* frame, and its next check of the flag returns Ok.
C8_AtMostOneFrameAfterStop ==
    /\ [](stopReads <= 1)
    /\ [][(pc \in {"check", "spin"} /\ ~running /\ pc' # pc) =>
            (pc' = "idle" /\ ret' = Ok("event_loop"))]_vars

C8_Witness ==
    /\ stopReads = 1
    /\ pc = "idle"
    /\ ret = Ok("event_loop")
    /\ message = NoFrame

\* C9: a send that fails because the receiver is closed does not end
\* event_loop: the step that leaves the send, unless it is the caller
\* dropping the call, goes to the yield, as after a send that succeeded,
\* nothing is returned, and the handle is kept.
C9_SendFailureIsNotFatal ==
    [][(pc = "send" /\ pc' # "send" /\ ret'.tag # "Dropped") =>
        /\ pc' = "yield"
        /\ ret' = ret
        /\ socket' = socket
        /\ rxClosed => (chan' = chan /\ ~sends'[Len(sends')].ok)]_vars

C9_Witness ==
    /\ Len(sends) = 1
    /\ ~sends[1].ok
    /\ Len(decoded) = 2
    /\ pc = "send"

\* C10: no operation of the session aborts.
C10_NeverAborts == ret.tag # "Panic"

\* The value a serialized order carries under the key of a field.
Member(obj, f) ==
    LET key == WireName(f) IN obj[CHOOSE i \in 1..Len(obj) : obj[i][1] = key][2]

\* The arguments of each call of limit_buy or limit_sell, with the envelope
\* the call hands to socket.send.
LimitEnvelopes ==
    {<<a, Envelope("order", <<LimitOrder(a[1], a[2], a[3], a[4], a[5])>>)>> :
        a \in Symbols \X Qtys \X Prices \X LimitTypes \X OrderSides}

\* The step is the call of limit_buy (side Buy) or limit_sell (side Sell)
\* with these arguments. The first two conjuncts follow from the third and
\* are tested before it.
LimitCall(symbol, qty, price, order_type, side) ==
    /\ ret'.op = (IF side = "Buy" THEN "limit_buy" ELSE "limit_sell")
    /\ \/ wire' = <<>>
       \/ <<<<symbol, qty, price, order_type, side>>, wire'[1]>> \in LimitEnvelopes
    /\ IF side = "Buy" THEN limit_buy(symbol, qty, price, order_type)
       ELSE limit_sell(symbol, qty, price, order_type)

\* C11: limit_buy(symbol, qty, price, order_type) on a session with a
\* handle makes at most one write, and exactly one when the call returns Ok
\* (a call that returns a transport error, or that its caller dropped at the
\* send, has made one write or none); what it writes is an envelope with op "order" and exactly one order, whose
\* side is buy, trade mode cross, position side unset, and whose quantity and
\* price are the caller's. limit_sell is the same with side sell.
C11_LimitOrderWritesOneEnvelope ==
    [][(socket # NoSocket /\ pc = "idle" /\ pc' = "idle"
            /\ ret'.op \in {"limit_buy", "limit_sell"}) =>
        \A symbol \in Symbols, qty \in Qtys, price \in Prices,
           order_type \in LimitTypes, side \in OrderSides :
            LimitCall(symbol, qty, price, order_type, side) =>
                /\ Len(wire') <= 1
                /\ ret'.tag = "Ok" => Len(wire') = 1
                /\ ret'.tag \in {"Ok", "Protocol", "Dropped"}
                /\ \A i \in 1..Len(wire') :
                    /\ wire'[i].op = "order"
                    /\ Len(wire'[i].args) = 1
                    /\ Member(wire'[i].args[1], "side") = JStr(SnakeCase(side))
                    /\ Member(wire'[i].args[1], "trade_mode") = JStr("cross")
                    /\ Member(wire'[i].args[1], "position_side") = JNull
                    /\ Member(wire'[i].args[1], "qty") = JStr(qty)
                    /\ Member(wire'[i].args[1], "price") = JStr(price)
                    /\ Member(wire'[i].args[1], "symbol") = JStr(symbol)]_vars

\* C11 as claimed: every call of limit_buy or limit_sell on a session with a
\* handle makes exactly one write, the envelope with op "order" and the one
\* order built from the caller's arguments.
C11_LimitOrderIsOneWrite ==
    [][(socket # NoSocket /\ pc = "idle" /\ pc' = "idle"
            /\ ret'.op \in {"limit_buy", "limit_sell"}) =>
        \A symbol \in Symbols, qty \in Qtys, price \in Prices,
           order_type \in LimitTypes, side \in OrderSides :
            LimitCall(symbol, qty, price, order_type, side) =>
                /\ Len(wire') = 1
                /\ wire'[1].op = "order"
                /\ Len(wire'[1].args) = 1
                /\ Member(wire'[1].args[1], "side") = JStr(SnakeCase(side))
                /\ Member(wire'[1].args[1], "trade_mode") = JStr("cross")
                /\ Member(wire'[1].args[1], "position_side") = JNull
                /\ Member(wire'[1].args[1], "qty") = JStr(qty)
                /\ Member(wire'[1].args[1], "price") = JStr(price)
                /\ Member(wire'[1].args[1], "symbol") = JStr(symbol)]_vars

C11_Witness ==
    /\ ret = Ok("limit_sell")
    /\ Len(wire) = 1
    /\ wire[1].op = "order"
    /\ Member(wire[1].args[1], "qty") = JStr("2")
    /\ Member(wire[1].args[1], "price") = JStr("49000")

\* The keys of a serialized order.
Keys(obj) == {obj[i][1] : i \in 1..Len(obj)}

\* C12: every order on the wire carries the keys instId, tdMode, ccy,
\* clOrdId, tag, side, posSide, ordType, sz, px and tgtCcy, the trade mode
\* under tdMode is "isolated", "cross" or "cash", and the side is "buy" or
\* "sell".
C12_WireNamesAsSpecified ==
    \A i \in 1..Len(wire) : \A k \in 1..Len(wire[i].args) :
        LET o == wire[i].args[k]
        IN  /\ {"instId", "tdMode", "ccy", "clOrdId", "tag", "side", "posSide",
                "ordType", "sz", "px", "tgtCcy"} \subseteq Keys(o)
            /\ \A m \in 1..Len(o) :
                    /\ o[m][1] = "tdMode" =>
                            o[m][2] \in {JStr("isolated"), JStr("cross"), JStr("cash")}
                    /\ o[m][1] = "side" => o[m][2] \in {JStr("buy"), JStr("sell")}

\* C13: a WSOrderRequest that is serialized and parsed back with the same
\* schema comes back with every field as it was, whichever optional fields
\* are present: no two fields share a key, and an absent field comes back
\* absent.
C13_RoundTrip ==
    /\ \A i, k \in 1..Len(Fields) : WireName(Fields[i]) = WireName(Fields[k]) => i = k
    /\ codec.fn = "WSOrderRequest" =>
            /\ codec.output.ok
            /\ codec.output.val = codec.input

C13_Witness ==
    /\ codec.fn = "WSOrderRequest"
    /\ codec.output.ok
    /\ Len(codec.input.args) = 1
    /\ codec.input.args[1].currency = None
    /\ codec.input.args[1].target_currency # None
    /\ codec.output.val.args[1].currency = None
    /\ codec.output.val.args[1].target_currency = Some("base_ccy")

\* C14: every error body of the venue decodes, whatever its code, and the
\* decoded error has the body's code, its message and its other members.
C14_EveryCodeDecodes ==
    codec.fn = "HuobiContentError" =>
        /\ codec.output.ok
        /\ codec.output.val.code = codec.input.code
        /\ codec.output.val.msg = codec.input.msg
        /\ codec.output.val.extra = codec.input.extra

\* C15: every failure source converts into Error by itself, into a variant
\* that no other source converts into.
C15_EverySourceConverts ==
    codec.fn = "Error::from" =>
        /\ codec.output.ok
        /\ \A other \in Sources :
                ErrorFrom(other) = codec.output => other = codec.input

\* C16: when event_loop has returned because of a close frame or a payload
\* that does not parse, the session has no handle.
C16_FatalFrameClearsHandle ==
    (pc = "idle" /\ ret.op = "event_loop" /\ ret.tag = "Msg") => socket = NoSocket

\* C17: event_loop never comes back to its condition without having passed
\* an await since the condition before.
C17_NeverSpins == pc # "spin"

\* A frame that event_loop neither forwards nor ends on: a text that is no
\* event and decodes as an acknowledgement, or a ping, pong, binary or
\* continuation frame.
Quiet(item) ==
    \/ item.kind \in IgnoredKinds
    \/ /\ item.kind = "Text"
       /\ ~IsEmpty(item.body)
       /\ ~DecodeWE(item.body).ok
       /\ DecodeResponse(item.body)

\* C18: reading an acknowledgement or a ping, pong, binary or continuation
\* frame hands nothing to the channel, leaves the handle as it is and returns
\* nothing: event_loop goes to its yield, and from there, unless its caller
\* drops it, to its condition.
C18_QuietFramesKeepLoop ==
    /\ [][pc = "read" =>
            \A item \in Frames : (Quiet(item) /\ LoopRead(item)) =>
                /\ pc' = "yield"
                /\ UNCHANGED <<socket, chan, sends, decoded, event, ret>>]_vars
    /\ [][(pc = "yield" /\ Quiet(message) /\ pc' # pc /\ ret'.tag # "Dropped") =>
            (pc' = "check" /\ UNCHANGED <<socket, chan, sends, decoded, ret>>)]_vars

C18_Witness ==
    /\ pc = "yield"
    /\ message = Text(Obj(AckKeys, ""))
    /\ ret = Pending("event_loop")
    /\ sends = <<>>

\* C19 as claimed: a full channel drops nothing. While the channel is full
\* and the receiver open, event_loop stands at its send and can take no step;
\* a decoded event is unsent only while event_loop stands at its send; the
\* channel never holds more than its capacity; and a send fails only when
\* the receiver is closed.
C19_LostOnlyWhenClosed ==
    /\ Len(chan) <= ChanCap
    /\ Len(decoded) - Len(sends) = (IF pc = "send" THEN 1 ELSE 0)
    /\ (pc = "send" /\ Len(chan) = ChanCap /\ ~rxClosed) => ~ENABLED event_loop
    /\ \A i \in 1..Len(sends) : ~sends[i].ok => rxClosed

\* C19: while the channel is full and the receiver open, event_loop stands at
\* its send and can take no step, so it reads no frame; at most one decoded
\* event is unsent, and only while event_loop stands at its send or after its
\* caller dropped it there; the channel never holds more than its capacity;
\* and a send fails only when the receiver is closed.
C19_FullChannelBlocks ==
    /\ Len(chan) <= ChanCap
    /\ Len(decoded) - Len(sends) = (IF Unsent THEN 1 ELSE 0)
    /\ (pc = "send" /\ Len(chan) = ChanCap /\ ~rxClosed) => ~ENABLED event_loop
    /\ \A i \in 1..Len(sends) : ~sends[i].ok => rxClosed

C19_Witness ==
    /\ pc = "send"
    /\ Len(chan) = ChanCap
    /\ ~rxClosed
    /\ Len(decoded) = Len(sends) + 1

\* C20: a payload that decodes as an event and as an acknowledgement is
\* forwarded as the event: reading it takes event_loop to its send with the
\* decoded event.
C20_EventBeforeAck ==
    [][pc = "read" => \A p \in Payloads :
            (/\ ~IsEmpty(p)
             /\ DecodeWE(p).ok
             /\ DecodeResponse(p)
             /\ LoopRead(Text(p))) =>
                /\ pc' = "send"
                /\ event' = DecodeWE(p).val
                /\ decoded' = Append(decoded, DecodeWE(p).val)
                /\ ret' = ret]_vars

C20_Witness ==
    /\ message = Text(Obj(EvtKeys \cup AckKeys, "trade-b"))
    /\ pc = "yield"
    /\ sends = <<[val |-> "trade-b", ok |-> TRUE]>>

====
